---------------------------- MODULE Spec2Model ----------------------------
(***************************************************************************)
(* Model of SymEngine's canonical Rational number (symengine/rational.cpp) *)
(* and of the generated decision-tree matcher for the pattern x**w.        *)
(*                                                                         *)
(* A caller sits at pc = "idle", invokes one operation with arguments      *)
(* drawn from bounded sets, and the operation's outcome is left in the     *)
(* state (pc = "returned").  The matcher match_root is run statement by    *)
(* statement so that the queue discipline can be observed.                 *)
(***************************************************************************)
EXTENDS Integers, Sequences, FiniteSets

VARIABLES
    pc,         \* position of the caller / of match_root
    op,         \* operation last invoked
    args,       \* its arguments
    status,     \* "none" | "ok" | "throw" | "abort"
    result,     \* the RCP<const Number> returned (Null when none)
    flag,       \* the bool returned by is_perfect_power / nth_root
    the_rat,    \* the output argument of nth_root
    expr,       \* the RCP<const Basic> returned by rpowrat
    trace,      \* the steps from_two_ints performed, in order
    subject,    \* match_root: its parameter
    subjects,   \* match_root: the outer Deque
    subjects2,  \* match_root: the nested Deque
    tmp1, tmp3, tmp4,   \* match_root: the popped elements
    subst0, subst1,     \* match_root: the substitutions
    matches,    \* match_root: the generator `result`
    saved       \* history: the queues as they were when each entered state's test ran

ratvars   == <<op, args, status, result, flag, the_rat, expr, trace>>
matchvars == <<subject, subjects, subjects2, tmp1, tmp3, tmp4, subst0, subst1,
               matches, saved>>
vars      == <<pc, ratvars, matchvars>>

---------------------------------------------------------------------------
(* Bounds of the model *)

MaxInt    == 6      \* |n|, |d| handed to from_two_ints / from_mpq
MaxPart   == 27     \* |numerator|, denominator of the Rationals tested
MaxDeg    == 3      \* degree handed to nth_root
MaxBase   == 9      \* |base| handed to rpowrat
MaxExpNum == 4      \* |numerator| of the exponent of rpowrat
MaxExpDen == 4      \* denominator of the exponent of rpowrat
MaxLit    == 3      \* Integer literals 2..MaxLit in the subjects

---------------------------------------------------------------------------
(* The arbitrary-precision primitives, as the library computes them *)

Abs(z) == IF z < 0 THEN -z ELSE z

RECURSIVE GCD(_, _)
GCD(a, b) == IF b = 0 THEN a ELSE GCD(b, a % b)

RECURSIVE IntPow(_, _)
IntPow(b, e) == IF e = 0 THEN 1 ELSE b * IntPow(b, e - 1)

\* rational_class(n, d): the pair as given, not reduced
rational_class(n, d) == [num |-> n, den |-> d]

get_num(q) == q.num
get_den(q) == q.den

\* mpq_canonicalize: common factors removed, denominator made positive
canonicalize(q) ==
    LET g == GCD(Abs(q.num), Abs(q.den))
        s == IF q.den < 0 THEN -1 ELSE 1
    IN  [num |-> s * (q.num \div g), den |-> s * (q.den \div g)]

\* mpz_cmpabs: sign of |a| - |b|
mpz_cmpabs(a, b) ==
    IF Abs(a) > Abs(b) THEN 1 ELSE IF Abs(a) < Abs(b) THEN -1 ELSE 0

\* the exponent k with z = b^k, or 0 when z is no power of b  (z, b >= 2)
RECURSIVE ExactLog(_, _)
ExactLog(z, b) ==
    IF z = b THEN 1
    ELSE IF z < b \/ z % b # 0 THEN 0
    ELSE LET k == ExactLog(z \div b, b) IN IF k = 0 THEN 0 ELSE k + 1

\* mpz_perfect_power_p: 0, 1 and -1 are perfect powers; a negative value can
\* only be an odd power
mpz_perfect_power_p(z) ==
    IF Abs(z) <= 1 THEN TRUE
    ELSE IF z > 0 THEN \E b \in 2..z : ExactLog(z, b) >= 2
    ELSE \E b \in 2..(-z) : ExactLog(-z, b) >= 3 /\ ExactLog(-z, b) % 2 = 1

\* the truncated n-th root of u >= 0, n >= 1
TruncRoot(u, n) ==
    CHOOSE s \in 0..u : IntPow(s, n) <= u /\ IntPow(s + 1, n) > u

\* mpz_root(rop, op, n): rop = truncated root, returns nonzero iff exact; an
\* even root of a negative operand raises the library's exception
mpz_root(u, n) ==
    IF u < 0 /\ n % 2 = 0 THEN [fault |-> TRUE, root |-> 0, exact |-> FALSE]
    ELSE LET s == TruncRoot(Abs(u), n)
         IN  [fault |-> FALSE,
              root  |-> IF u < 0 THEN -s ELSE s,
              exact |-> IntPow(s, n) = Abs(u)]

\* mpz_fdiv_qr: floor division, the remainder has the sign of the divisor
mpz_fdiv_qr(n, d) == [q |-> n \div d, r |-> n % d]

---------------------------------------------------------------------------
(* Number objects *)

Null          == [tag |-> "Null", num |-> 0, den |-> 0]
integer(n)    == [tag |-> "Integer", num |-> n, den |-> 1]
RationalObj(q) == [tag |-> "Rational", num |-> q.num, den |-> q.den]

\* Rational::is_canonical
is_canonical(i) ==
    LET x == canonicalize(i)
    IN  IF get_den(x) = 1 THEN FALSE
        ELSE IF get_num(x) # get_num(i) THEN FALSE
        ELSE IF get_den(x) # get_den(i) THEN FALSE
        ELSE TRUE

\* Rational::Rational: SYMENGINE_ASSERT(is_canonical(i)) is compiled in only
\* when assertions are enabled
make_rcp_Rational(i, asserts) ==
    IF asserts /\ ~is_canonical(i)
    THEN [status |-> "abort", val |-> Null]
    ELSE [status |-> "ok", val |-> RationalObj(i)]


---------------------------------------------------------------------------
(* Rational: construction *)

\* from_mpq without its Integer case
from_mpq_always_rational(i, asserts) == make_rcp_Rational(i, asserts)

\* Rational::from_mpq: no reduction is done here, only the test den == 1
from_mpq(i, asserts) ==
    IF get_den(i) = 1
    THEN [status |-> "ok", val |-> integer(get_num(i))]
    ELSE make_rcp_Rational(i, asserts)

\* from_two_ints without the call of canonicalize
from_two_ints_uncanonicalized(n, d, asserts) ==
    IF d = 0
    THEN [status |-> "throw", val |-> Null, trace |-> <<>>]
    ELSE LET r == from_mpq(rational_class(n, d), asserts)
         IN  [status |-> r.status, val |-> r.val,
              trace |-> <<"rational_class", "from_mpq">>]

\* Rational::from_two_ints(const Integer &, const Integer &)
from_two_ints(n, d, asserts) ==
    IF d = 0
    THEN [status |-> "throw", val |-> Null, trace |-> <<>>]
    ELSE LET q == canonicalize(rational_class(n, d))
             r == from_mpq(q, asserts)
         IN  [status |-> r.status, val |-> r.val,
              trace |-> <<"rational_class", "canonicalize", "from_mpq">>]

\* from_two_ints(long, long) testing d only after the fraction is built
from_two_ints_long_late_check(n, d, asserts) ==
    IF d = 0
    THEN [status |-> "throw", val |-> Null, trace |-> <<"rational_class">>]
    ELSE LET q == canonicalize(rational_class(n, d))
             r == from_mpq(q, asserts)
         IN  [status |-> r.status, val |-> r.val,
              trace |-> <<"rational_class", "canonicalize", "from_mpq">>]

\* Rational::from_two_ints(long, long)
from_two_ints_long(n, d, asserts) ==
    IF d = 0
    THEN [status |-> "throw", val |-> Null, trace |-> <<>>]
    ELSE LET q == canonicalize(rational_class(n, d))
             r == from_mpq(q, asserts)
         IN  [status |-> r.status, val |-> r.val,
              trace |-> <<"rational_class", "canonicalize", "from_mpq">>]

---------------------------------------------------------------------------
(* Rational: perfect power, n-th root *)

\* is_perfect_power with the early exit taken on the opposite outcome
is_perfect_power_inverted(i, is_expected) ==
    LET num == get_num(i)
        den == get_den(i)
    IN  IF num = 0 THEN TRUE
        ELSE IF num = 1 THEN mpz_perfect_power_p(den)
        ELSE IF ~is_expected /\ mpz_cmpabs(num, den) > 0
                /\ mpz_perfect_power_p(den) THEN FALSE
        ELSE IF ~is_expected /\ ~(mpz_cmpabs(num, den) > 0)
                /\ mpz_perfect_power_p(num) THEN FALSE
        ELSE mpz_perfect_power_p(num * den)

\* is_perfect_power delegating to the denominator whenever |num| is 1
is_perfect_power_abs_one(i, is_expected) ==
    LET num == get_num(i)
        den == get_den(i)
    IN  IF num = 0 THEN TRUE
        ELSE IF Abs(num) = 1 THEN mpz_perfect_power_p(den)
        ELSE IF ~is_expected /\ mpz_cmpabs(num, den) > 0
                /\ ~mpz_perfect_power_p(den) THEN FALSE
        ELSE IF ~is_expected /\ ~(mpz_cmpabs(num, den) > 0)
                /\ ~mpz_perfect_power_p(num) THEN FALSE
        ELSE mpz_perfect_power_p(num * den)

\* Rational::is_perfect_power
is_perfect_power(i, is_expected) ==
    LET num == get_num(i)
        den == get_den(i)
    IN  IF num = 0 THEN TRUE
        ELSE IF num = 1 THEN mpz_perfect_power_p(den)
        ELSE IF ~is_expected /\ mpz_cmpabs(num, den) > 0
                /\ ~mpz_perfect_power_p(den) THEN FALSE
        ELSE IF ~is_expected /\ ~(mpz_cmpabs(num, den) > 0)
                /\ ~mpz_perfect_power_p(num) THEN FALSE
        ELSE mpz_perfect_power_p(num * den)

\* Rational::nth_root: `prior` is what the output argument held at the call
nth_root(i, n, prior, asserts) ==
    IF n = 0 THEN [status |-> "throw", ret |-> FALSE, the_rat |-> prior]
    ELSE
    LET rn == mpz_root(get_num(i), n) IN
    IF rn.fault THEN [status |-> "abort", ret |-> FALSE, the_rat |-> prior]
    ELSE IF ~rn.exact THEN [status |-> "ok", ret |-> FALSE, the_rat |-> prior]
    ELSE
    LET rd == mpz_root(get_den(i), n) IN
    IF rd.fault THEN [status |-> "abort", ret |-> FALSE, the_rat |-> prior]
    ELSE IF ~rd.exact THEN [status |-> "ok", ret |-> FALSE, the_rat |-> prior]
    ELSE
    LET made == make_rcp_Rational(rational_class(rn.root, rd.root), asserts) IN
    IF made.status # "ok"
    THEN [status |-> made.status, ret |-> FALSE, the_rat |-> prior]
    ELSE [status |-> "ok", ret |-> TRUE, the_rat |-> made.val]

---------------------------------------------------------------------------
(* Rational: rational exponentiation *)

\* A numeric coefficient (num/den) * I^im, num/den in lowest terms, im in {0, 1}
Coef(n, d, im) ==
    LET c == canonicalize(rational_class(n, d))
    IN  [num |-> c.num, den |-> c.den, im |-> im]

\* the imaginary unit I
I == Coef(1, 1, 1)

\* Number::mul on coefficients:  I * I = -1
mulnum(a, b) ==
    Coef((IF a.im = 1 /\ b.im = 1 THEN -1 ELSE 1) * a.num * b.num,
         a.den * b.den, (a.im + b.im) % 2)

\* SymEngine::neg
neg(a) == Coef(-a.num, a.den, a.im)

\* I->pow(e) for an integer e:  I^e depends on e mod 4
I_pow(e) ==
    LET k == e % 4
    IN  IF k = 0 THEN Coef(1, 1, 0)
        ELSE IF k = 1 THEN Coef(1, 1, 1)
        ELSE IF k = 2 THEN Coef(-1, 1, 0)
        ELSE Coef(-1, 1, 1)

\* Integer::powint: b^e exactly, 1/b^|e| for a negative e; 0 to a negative
\* power is a division by zero
powint(b, e) ==
    IF e >= 0 THEN [status |-> "ok", val |-> Coef(IntPow(b, e), 1, 0)]
    ELSE IF b = 0 THEN [status |-> "throw", val |-> Coef(0, 1, 0)]
    ELSE [status |-> "ok", val |-> Coef(1, IntPow(b, -e), 0)]

\* i_nth_root(r, a, n) for a >= 0: r = truncated n-th root, true iff exact
i_nth_root(a, n) == mpz_root(a, n)

NoExpr == [coef |-> Coef(0, 1, 0), surd |-> {}]

\* the value returned: a coefficient times the product of base^exp over surd
Basic(c, surd) == [status |-> c.status, expr |-> [coef |-> c.val, surd |-> surd]]

\* insert(surd, base, exp)
insert(surd, base, exp) == surd \cup {[base |-> base, exp |-> exp]}

\* the fallback without the case den = 2 and negative base
rpowrat_surd_no_imaginary(i, other, asserts) ==
    LET num  == get_num(i)
        den  == get_den(i)
        qr   == mpz_fdiv_qr(num, den)
        coef == powint(other, qr.q)
        e    == from_mpq(rational_class(qr.r, den), asserts)
    IN  IF coef.status # "ok" THEN [status |-> coef.status, expr |-> NoExpr]
        ELSE IF e.status # "ok" THEN [status |-> e.status, expr |-> NoExpr]
        ELSE Basic(coef, insert({}, other, e.val))

\* Rational::rpowrat, lines 166-187: no exact root
rpowrat_surd(i, other, asserts) ==
    LET num  == get_num(i)
        den  == get_den(i)
        qr   == mpz_fdiv_qr(num, den)
        coef == powint(other, qr.q)
        e    == from_mpq(rational_class(qr.r, den), asserts)
    IN  IF coef.status # "ok" THEN [status |-> coef.status, expr |-> NoExpr]
        ELSE IF e.status # "ok" THEN [status |-> e.status, expr |-> NoExpr]
        ELSE IF other < 0 /\ den = 2
             THEN Basic([status |-> "ok", val |-> mulnum(coef.val, I)],
                        IF other # -1 THEN insert({}, -other, e.val) ELSE {})
             ELSE Basic(coef, insert({}, other, e.val))

\* Rational::rpowrat: `i` is the exponent (this), `other` the integer base
rpowrat(i, other, asserts) ==
    LET exp == get_den(i)
        num == get_num(i)
    IN  IF other < 0
        THEN LET res == i_nth_root(-other, exp)
             IN  IF res.exact
                 THEN IF exp % 2 = 0
                      THEN LET p == powint(res.root, num)
                           IN  Basic([status |-> p.status,
                                      val |-> mulnum(I_pow(num), p.val)], {})
                      ELSE LET p == powint(res.root, num)
                           IN  Basic([status |-> p.status, val |-> neg(p.val)], {})
                 ELSE rpowrat_surd(i, other, asserts)
        ELSE LET res == i_nth_root(other, exp)
             IN  IF res.exact
                 THEN Basic(powint(res.root, num), {})
                 ELSE rpowrat_surd(i, other, asserts)

---------------------------------------------------------------------------
(* Expression nodes and the helpers of the matcher *)

Symbol(name) == [tag |-> "Symbol", name |-> name, val |-> 0, args |-> <<>>]
Literal(k)   == [tag |-> "Integer", name |-> "", val |-> k, args |-> <<>>]
Pow(b, e)    == [tag |-> "Pow", name |-> "", val |-> 0, args |-> <<b, e>>]
Add(a, b)    == [tag |-> "Add", name |-> "", val |-> 0, args |-> <<a, b>>]

NoNode == [tag |-> "None", name |-> "", val |-> 0, args |-> <<>>]

\* the global symbols of the generated file
x == Symbol("x")
y == Symbol("y")

\* is_a<Pow>(*b)
is_a_Pow(b) == b.tag = "Pow"

\* Basic::__eq__: structural equality
eq(a, b) == a = b

\* get_deque: the ordered children of a node
get_deque(b) == b.args

\* Deque::push_front / pop_front / front
push_front(q, e) == <<e>> \o q
pop_front(q)     == Tail(q)
front(q)         == Head(q)

\* A Substitution is a set of bindings, at most one per name
Bound(subst, name) == \E b \in subst : b.name = name
Lookup(subst, name) == (CHOOSE b \in subst : b.name = name).value

\* try_add_variable: 0 when `name` is unbound (it is then bound) or bound to
\* an equal value, nonzero when it is bound to a different value
try_add_variable(subst, name, value) ==
    IF ~Bound(subst, name)
    THEN [ret |-> 0, subst |-> subst \cup {[name |-> name, value |-> value]}]
    ELSE IF eq(Lookup(subst, name), value)
    THEN [ret |-> 0, subst |-> subst]
    ELSE [ret |-> 1, subst |-> subst]

\* the subjects handed to match_root
Atoms    == {x, y} \cup {Literal(k) : k \in 2..MaxLit}
Level1   == {Pow(a, b) : a, b \in Atoms} \cup {Add(a, b) : a, b \in Atoms}
Level2   == {Pow(a, b) : a, b \in Atoms \cup Level1}
            \cup {Add(a, b) : a, b \in Atoms \cup Level1}
Subjects == Atoms \cup Level1 \cup Level2

---------------------------------------------------------------------------
(* The caller *)

NoArgs == [num |-> 0, den |-> 1, n |-> 0, base |-> 0, hint |-> FALSE,
           long |-> FALSE, asserts |-> FALSE, prior |-> Null]

\* the Rationals that exist: lowest terms, denominator >= 2
Rationals(maxnum, maxden) ==
    {q \in [num : (-maxnum)..maxnum, den : 2..maxden] :
        q.num # 0 /\ GCD(Abs(q.num), q.den) = 1}

\* what an output argument may hold before nth_root is called
Priors == {Null, RationalObj(rational_class(1, 2))}

RatInit ==
    /\ op = "none"
    /\ args = NoArgs
    /\ status = "none"
    /\ result = Null
    /\ flag = FALSE
    /\ the_rat = Null
    /\ expr = NoExpr
    /\ trace = <<>>

MatchInit ==
    /\ subject = NoNode
    /\ subjects = <<>>
    /\ subjects2 = <<>>
    /\ tmp1 = NoNode
    /\ tmp3 = NoNode
    /\ tmp4 = NoNode
    /\ subst0 = {}
    /\ subst1 = {}
    /\ matches = <<>>
    /\ saved = <<>>

Init == pc = "idle" /\ RatInit /\ MatchInit

CallFromTwoInts ==
    /\ pc = "idle"
    /\ \E n \in (-MaxInt)..MaxInt, d \in (-MaxInt)..MaxInt, l \in BOOLEAN, a \in BOOLEAN :
         LET r == IF l THEN from_two_ints_long(n, d, a) ELSE from_two_ints(n, d, a)
         IN  /\ op' = "from_two_ints"
             /\ args' = [NoArgs EXCEPT !.num = n, !.den = d, !.long = l, !.asserts = a]
             /\ status' = r.status
             /\ result' = r.val
             /\ trace' = r.trace
    /\ pc' = "returned"
    /\ UNCHANGED <<flag, the_rat, expr, matchvars>>

CallFromMpq ==
    /\ pc = "idle"
    /\ \E p \in (-MaxInt)..MaxInt, q \in ((-MaxInt)..MaxInt) \ {0}, a \in BOOLEAN :
         LET r == from_mpq(rational_class(p, q), a)
         IN  /\ op' = "from_mpq"
             /\ args' = [NoArgs EXCEPT !.num = p, !.den = q, !.asserts = a]
             /\ status' = r.status
             /\ result' = r.val
    /\ pc' = "returned"
    /\ UNCHANGED <<flag, the_rat, expr, trace, matchvars>>

CallIsPerfectPower ==
    /\ pc = "idle"
    /\ \E i \in Rationals(MaxPart, MaxPart), h \in BOOLEAN :
         /\ op' = "is_perfect_power"
         /\ args' = [NoArgs EXCEPT !.num = i.num, !.den = i.den, !.hint = h]
         /\ status' = "ok"
         /\ flag' = is_perfect_power(i, h)
    /\ pc' = "returned"
    /\ UNCHANGED <<result, the_rat, expr, trace, matchvars>>

CallNthRoot ==
    /\ pc = "idle"
    /\ \E i \in Rationals(MaxPart, MaxPart), n \in 0..MaxDeg, p \in Priors, a \in BOOLEAN :
         LET r == nth_root(i, n, p, a)
         IN  /\ op' = "nth_root"
             /\ args' = [NoArgs EXCEPT !.num = i.num, !.den = i.den, !.n = n,
                                       !.prior = p, !.asserts = a]
             /\ status' = r.status
             /\ flag' = r.ret
             /\ the_rat' = r.the_rat
    /\ pc' = "returned"
    /\ UNCHANGED <<result, expr, trace, matchvars>>

CallRpowrat ==
    /\ pc = "idle"
    /\ \E i \in Rationals(MaxExpNum, MaxExpDen), b \in (-MaxBase)..MaxBase, a \in BOOLEAN :
         LET r == rpowrat(i, b, a)
         IN  /\ op' = "rpowrat"
             /\ args' = [NoArgs EXCEPT !.num = i.num, !.den = i.den, !.base = b,
                                       !.asserts = a]
             /\ status' = r.status
             /\ expr' = r.expr
    /\ pc' = "returned"
    /\ UNCHANGED <<result, flag, the_rat, trace, matchvars>>

---------------------------------------------------------------------------
(* match_root, statement by statement *)

\* the queues as they are now, pushed on `saved` when a state's block is entered
Snapshot == [q1 |-> subjects, q2 |-> subjects2]

\* lines 18-23: the work queue is seeded with the subject
Begin ==
    /\ pc = "idle"
    /\ \E s \in Subjects :
         /\ subject' = s
         /\ subjects' = push_front(<<>>, s)
    /\ subst0' = {}
    /\ matches' = <<>>
    /\ pc' = "s2217"
    /\ UNCHANGED <<ratvars, subjects2, tmp1, tmp3, tmp4, subst1, saved>>

\* State 2217, lines 25-28
State2217 ==
    /\ pc = "s2217"
    /\ IF Len(subjects) >= 1 /\ is_a_Pow(subjects[1])
       THEN /\ tmp1' = front(subjects)
            /\ subjects' = pop_front(subjects)
            /\ subjects2' = get_deque(front(subjects))
            /\ saved' = push_front(saved, Snapshot)
            /\ pc' = "s2218"
       ELSE /\ pc' = "return"
            /\ UNCHANGED <<tmp1, subjects, subjects2, saved>>
    /\ UNCHANGED <<ratvars, subject, tmp3, tmp4, subst0, subst1, matches>>

\* State 2218 without the comparison of the base with x
State2218_any_base ==
    /\ pc = "s2218"
    /\ IF Len(subjects2) >= 1
       THEN /\ tmp3' = front(subjects2)
            /\ subjects2' = pop_front(subjects2)
            /\ saved' = push_front(saved, Snapshot)
            /\ pc' = "s2219"
       ELSE /\ pc' = "end2217"
            /\ UNCHANGED <<tmp3, subjects2, saved>>
    /\ UNCHANGED <<ratvars, subject, subjects, tmp1, tmp4, subst0, subst1, matches>>

\* State 2218, lines 30-32
State2218 ==
    /\ pc = "s2218"
    /\ IF Len(subjects2) >= 1 /\ eq(subjects2[1], x)
       THEN /\ tmp3' = front(subjects2)
            /\ subjects2' = pop_front(subjects2)
            /\ saved' = push_front(saved, Snapshot)
            /\ pc' = "s2219"
       ELSE /\ pc' = "end2217"
            /\ UNCHANGED <<tmp3, subjects2, saved>>
    /\ UNCHANGED <<ratvars, subject, subjects, tmp1, tmp4, subst0, subst1, matches>>

\* State 2219, lines 34-38
State2219 ==
    /\ pc = "s2219"
    /\ IF Len(subjects2) >= 1
       THEN LET t == try_add_variable(subst0, "i2", front(subjects2))
            IN  /\ tmp4' = front(subjects2)
                /\ subjects2' = pop_front(subjects2)
                /\ subst1' = t.subst
                /\ saved' = push_front(saved, Snapshot)
                /\ pc' = IF t.ret = 0 THEN "s2220" ELSE "end2219"
       ELSE /\ pc' = "end2218"
            /\ UNCHANGED <<tmp4, subjects2, subst1, saved>>
    /\ UNCHANGED <<ratvars, subject, subjects, tmp1, tmp3, subst0, matches>>

\* State 2220, line 40
State2220 ==
    /\ pc = "s2220"
    /\ pc' = IF Len(subjects2) = 0 THEN "s2221" ELSE "end2219"
    /\ UNCHANGED <<ratvars, matchvars>>

\* State 2221, lines 42-47
State2221 ==
    /\ pc = "s2221"
    /\ IF Len(subjects) = 0
       THEN LET tmp_subst == {[name |-> "w", value |-> Lookup(subst1, "i2")]}
            IN  matches' = Append(matches, [pattern_id |-> 0, subst |-> tmp_subst])
       ELSE UNCHANGED matches
    /\ pc' = "end2219"
    /\ UNCHANGED <<ratvars, subject, subjects, subjects2, tmp1, tmp3, tmp4,
                   subst0, subst1, saved>>

\* line 50
End2219 ==
    /\ pc = "end2219"
    /\ subjects2' = push_front(subjects2, tmp4)
    /\ saved' = pop_front(saved)
    /\ pc' = "end2218"
    /\ UNCHANGED <<ratvars, subject, subjects, tmp1, tmp3, tmp4, subst0, subst1,
                   matches>>

\* line 52 without the push_front of tmp3
End2218_no_push ==
    /\ pc = "end2218"
    /\ saved' = pop_front(saved)
    /\ pc' = "end2217"
    /\ UNCHANGED <<ratvars, subject, subjects, subjects2, tmp1, tmp3, tmp4,
                   subst0, subst1, matches>>

\* line 52
End2218 ==
    /\ pc = "end2218"
    /\ subjects2' = push_front(subjects2, tmp3)
    /\ saved' = pop_front(saved)
    /\ pc' = "end2217"
    /\ UNCHANGED <<ratvars, subject, subjects, tmp1, tmp3, tmp4, subst0, subst1,
                   matches>>

\* lines 54-55: subjects2 goes out of scope with the block
End2217 ==
    /\ pc = "end2217"
    /\ subjects' = push_front(subjects, tmp1)
    /\ subjects2' = <<>>
    /\ saved' = pop_front(saved)
    /\ pc' = "return"
    /\ UNCHANGED <<ratvars, subject, tmp1, tmp3, tmp4, subst0, subst1, matches>>

\* line 56
Return ==
    /\ pc = "return"
    /\ pc' = "done"
    /\ UNCHANGED <<ratvars, matchvars>>

\* the caller drops what was returned; every invocation starts afresh
Release ==
    /\ pc \in {"returned", "done"}
    /\ pc' = "idle"
    /\ op' = "none" /\ args' = NoArgs /\ status' = "none" /\ result' = Null
    /\ flag' = FALSE /\ the_rat' = Null /\ expr' = NoExpr /\ trace' = <<>>
    /\ subject' = NoNode /\ subjects' = <<>> /\ subjects2' = <<>>
    /\ tmp1' = NoNode /\ tmp3' = NoNode /\ tmp4' = NoNode
    /\ subst0' = {} /\ subst1' = {} /\ matches' = <<>> /\ saved' = <<>>

Next ==
    \/ CallFromTwoInts
    \/ CallFromMpq
    \/ CallIsPerfectPower
    \/ CallNthRoot
    \/ CallRpowrat
    \/ Begin
    \/ State2217
    \/ State2218
    \/ State2219
    \/ State2220
    \/ State2221
    \/ End2219
    \/ End2218
    \/ End2217
    \/ Return
    \/ Release

Spec == Init /\ [][Next]_vars

---------------------------------------------------------------------------
(* Properties *)

Returned(o) == pc = "returned" /\ op = o

\* the fraction a Number object holds
FracOf(v) == rational_class(v.num, v.den)

\* C1: for d # 0, from_two_ints(n, d) returns a Number in canonical form:
\* denominator > 0, gcd(numerator, denominator) = 1, an Integer (never a
\* Rational) when the reduced denominator is 1, and canonicalizing the
\* returned numerator/denominator again changes nothing.
C1_FromTwoIntsCanonical ==
    (Returned("from_two_ints") /\ args.den # 0) =>
        /\ status = "ok"
        /\ result.tag \in {"Integer", "Rational"}
        /\ result.den > 0
        /\ GCD(Abs(result.num), result.den) = 1
        /\ (result.den = 1 <=> result.tag = "Integer")
        /\ canonicalize(FracOf(result)) = FracOf(result)

\* C1 witness: 4/(-6) came back as the Rational -2/3
C1_Witness ==
    /\ Returned("from_two_ints")
    /\ args.num = 4 /\ args.den = -6
    /\ result = RationalObj(rational_class(-2, 3))

\* lowest terms with a positive denominator
LowestTerms(p, q) == q > 0 /\ GCD(Abs(p), q) = 1

\* C2 (as stated): for every p/q with q # 0, from_mpq returns the fraction
\* reduced to lowest terms with positive denominator, as an Integer when the
\* reduced value is integral and as a Rational otherwise.
C2_FromMpqReduces ==
    Returned("from_mpq") =>
        /\ status = "ok"
        /\ LowestTerms(result.num, result.den)
        /\ result.num * args.den = args.num * result.den
        /\ result.tag = (IF result.den = 1 THEN "Integer" ELSE "Rational")

\* C2 (amended): from_mpq reduces nothing.  For an input already in lowest
\* terms with positive denominator it returns an Integer when the denominator
\* is 1 and otherwise a Rational holding the fraction unchanged; for any other
\* input the constructor's assertion fails when assertions are compiled in,
\* and otherwise a Rational holding the fraction as given is returned.
C2_FromMpqNoReduction ==
    Returned("from_mpq") =>
        IF LowestTerms(args.num, args.den)
        THEN /\ status = "ok"
             /\ result = IF args.den = 1 THEN integer(args.num)
                         ELSE RationalObj(rational_class(args.num, args.den))
        ELSE IF args.asserts
        THEN status = "abort" /\ result = Null
        ELSE status = "ok" /\ result = RationalObj(rational_class(args.num, args.den))

\* C2 witness: 2/4 handed to from_mpq came back as a Rational still holding 2/4
C2_Witness ==
    /\ Returned("from_mpq")
    /\ args.num = 2 /\ args.den = 4
    /\ status = "ok"
    /\ result = RationalObj(rational_class(2, 4))

\* z has an exact integer n-th root
HasExactRoot(z, n) == \E s \in (-Abs(z))..Abs(z) : IntPow(s, n) = z

\* C4 (as stated): for every canonical Rational r and degree n >= 1, nth_root
\* returns true iff numerator and denominator both have exact integer n-th
\* roots; on true the output raised to the n-th power is r; on false the
\* output argument is unmodified.
C4_NthRoot ==
    (Returned("nth_root") /\ args.n >= 1) =>
        /\ status = "ok"
        /\ flag <=> (HasExactRoot(args.num, args.n) /\ HasExactRoot(args.den, args.n))
        /\ flag => /\ the_rat.tag = "Rational"
                   /\ IntPow(the_rat.num, args.n) = args.num
                   /\ IntPow(the_rat.den, args.n) = args.den
        /\ ~flag => the_rat = args.prior

\* C5: from_two_ints(n, 0), in both overloads, fails with the division by
\* zero error, returns no Number, and has built or canonicalized no fraction.
C5_DivisionByZero ==
    (Returned("from_two_ints") /\ args.den = 0) =>
        /\ status = "throw"
        /\ result = Null
        /\ trace = <<>>

\* C5 witness: the long overload was called with (3, 0) and threw
C5_Witness ==
    /\ Returned("from_two_ints")
    /\ args.num = 3 /\ args.den = 0 /\ args.long
    /\ status = "throw"

\* C6: is_perfect_power gives the same answer for both values of the hint.
C6_HintAgrees ==
    Returned("is_perfect_power") =>
        flag = is_perfect_power(rational_class(args.num, args.den), ~args.hint)

\* C6 witness: 4/9 tested without the hint, the early exit not taken
C6_Witness ==
    /\ Returned("is_perfect_power")
    /\ args.num = 4 /\ args.den = 9 /\ ~args.hint
    /\ flag

\* C7 (as stated): when the numerator is 1 or -1, is_perfect_power returns the
\* perfect-power test of the denominator alone, for both hints.
C7_MagnitudeOne ==
    (Returned("is_perfect_power") /\ Abs(args.num) = 1) =>
        flag = mpz_perfect_power_p(args.den)

\* C7 (amended): when the numerator is exactly 1, is_perfect_power returns the
\* perfect-power test of the denominator alone; when it is -1 it returns the
\* test of numerator * denominator = -denominator (so -1/4 is no perfect
\* power although 4 is one); both for either hint.
C7_NumeratorOne ==
    Returned("is_perfect_power") =>
        /\ args.num = 1 => flag = mpz_perfect_power_p(args.den)
        /\ args.num = -1 => flag = mpz_perfect_power_p(-args.den)

\* C7 witness: -1/4 was tested and found to be no perfect power
C7_Witness ==
    /\ Returned("is_perfect_power")
    /\ args.num = -1 /\ args.den = 4
    /\ ~flag

\* C3: match_root returns exactly one result, pattern 0 with substitution
\* {w: e}, when the subject is a Pow whose children are [x, e], and the empty
\* sequence for every other subject; the substitution binds only w.
C3_MatchXPowW ==
    pc = "done" =>
        IF is_a_Pow(subject) /\ eq(get_deque(subject)[1], x)
        THEN /\ Len(matches) = 1
             /\ matches[1].pattern_id = 0
             /\ matches[1].subst = {[name |-> "w", value |-> get_deque(subject)[2]]}
             /\ {b.name : b \in matches[1].subst} = {"w"}
        ELSE matches = <<>>

\* C3 witness: x**2 has been matched
C3_Witness ==
    /\ pc = "done"
    /\ subject = Pow(x, Literal(2))
    /\ Len(matches) = 1

\* C8: leaving the block of a state puts both queues back as they were when
\* that state's test was evaluated; states 2220 and 2221 touch neither queue;
\* at return the outer queue holds exactly the subject again.
C8_QueuesRestored ==
    [][ /\ pc \in {"end2219", "end2218", "end2217"} =>
              /\ subjects' = Head(saved).q1
              /\ subjects2' = Head(saved).q2
        /\ pc \in {"s2220", "s2221"} => UNCHANGED <<subjects, subjects2>>
        /\ pc' = "done" => subjects' = <<subject'>> ]_vars

\* C8 witness: a match was emitted and match_root has returned, every block
\* entered having been left
C8_Witness ==
    /\ pc = "done"
    /\ Len(matches) = 1
    /\ saved = <<>>
    /\ tmp4 # NoNode
    /\ subjects = <<subject>>

\* the exact n-th root of a >= 0, when it exists
ExactRootExists(a, n) == \E s \in 0..a : IntPow(s, n) = a
ExactRoot(a, n) == CHOOSE s \in 0..a : IntPow(s, n) = a

\* C9 (as stated): for a negative base b whose |b| has the exact den-th root
\* s, rpowrat returns (-s)^num when den is odd, for every num, and
\* I^num * s^num when den is even.
C9_NegativeBaseRoot ==
    (Returned("rpowrat") /\ args.base < 0 /\ ExactRootExists(-args.base, args.den)) =>
        LET s == ExactRoot(-args.base, args.den)
        IN  /\ status = "ok"
            /\ expr.surd = {}
            /\ expr.coef = IF args.den % 2 = 1
                           THEN powint(-s, args.num).val
                           ELSE mulnum(I_pow(args.num), powint(s, args.num).val)

\* C10: when no exact root exists, rpowrat returns b^q times the surd
\* b^(r/den) with q*den + r = num, 0 < r < den and r/den a canonical Rational;
\* except for den = 2 and b < 0, where it returns b^q * I times (-b)^(r/den),
\* so that no square-root surd has a negative base.
C10_SurdFallback ==
    (Returned("rpowrat") /\ ~ExactRootExists(Abs(args.base), args.den)) =>
        LET num == args.num
            den == args.den
            b   == args.base
            q   == CHOOSE k \in (-Abs(num) - 1)..Abs(num) :
                       k * den <= num /\ num < (k + 1) * den
            r   == num - q * den
            bq  == powint(b, q).val
            e   == RationalObj(rational_class(r, den))
        IN  /\ status = "ok"
            /\ 0 < r /\ r < den
            /\ is_canonical(rational_class(r, den))
            /\ IF den = 2 /\ b < 0
               THEN /\ expr.coef = [num |-> bq.num, den |-> bq.den, im |-> 1]
                    /\ expr.surd = IF b = -1 THEN {} ELSE {[base |-> -b, exp |-> e]}
               ELSE /\ expr.coef = bq
                    /\ expr.surd = {[base |-> b, exp |-> e]}
            /\ \A t \in expr.surd : t.exp.den = 2 => t.base > 0

\* C10 witness: (-2)^(3/2) came back as -2*I times 2^(1/2)
C10_Witness ==
    /\ Returned("rpowrat")
    /\ args.base = -2 /\ args.num = 3 /\ args.den = 2
    /\ expr.coef = [num |-> -2, den |-> 1, im |-> 1]
    /\ expr.surd = {[base |-> 2, exp |-> RationalObj(rational_class(1, 2))]}

=============================================================================
